---- MODULE Spec2Model ----
(***************************************************************************)
(* Model of two Home Assistant integration modules:                        *)
(*   - buienradar/sensor.py: BrSensor, the sensor entity that extracts its *)
(*     value from a measurement snapshot (data_updated / _load_data);      *)
(*   - openai_conversation/config_flow.py: OpenAIConfigFlow.async_step_user*)
(* Python values are tagged records [t, v]; dicts are functions whose      *)
(* keys are strings written as sequences of characters, so that the        *)
(* startswith / endswith / slicing of the sensor key is computed as the    *)
(* code computes it.                                                       *)
(***************************************************************************)
EXTENDS Integers, Sequences, FiniteSets, TLC

\* ---------------------------------------------------------------- bounds
\* measured timestamps are the datetimes 1..MaxTime
MaxTime == 2
\* a snapshot's forecast list holds 0..MaxDays days
MaxDays == 5
\* a config flow is submitted at most MaxAttempts times
MaxAttempts == 3

\* ---------------------------------------------------------------- strings
ATTRIBUTION == <<"a","t","t","r","i","b","u","t","i","o","n">>
CONDCODE == <<"c","o","n","d","c","o","d","e">>
CONDITION == <<"c","o","n","d","i","t","i","o","n">>
DETAILED == <<"d","e","t","a","i","l","e","d">>
EXACT == <<"e","x","a","c","t">>
EXACTNL == <<"e","x","a","c","t","_","n","l">>
FORECAST == <<"f","o","r","e","c","a","s","t">>
IMAGE == <<"i","m","a","g","e">>
MEASURED == <<"m","e","a","s","u","r","e","d">>
PRECIPITATION_FORECAST == <<"p","r","e","c","i","p","i","t","a","t","i","o","n","_","f","o","r","e","c","a","s","t">>
STATIONNAME == <<"s","t","a","t","i","o","n","n","a","m","e">>
TIMEFRAME == <<"t","i","m","e","f","r","a","m","e">>
VISIBILITY == <<"v","i","s","i","b","i","l","i","t","y">>
WINDGUST == <<"w","i","n","d","g","u","s","t">>
WINDSPEED == <<"w","i","n","d","s","p","e","e","d">>
SYMBOL == <<"s","y","m","b","o","l">>
MEASURED_LABEL == "Measured"
STATIONNAME_LABEL == "Stationname"
ATTR_ATTRIBUTION == "attribution"

Str_conditioncode == <<"c","o","n","d","i","t","i","o","n","c","o","d","e">>
Str_conditiondetailed == <<"c","o","n","d","i","t","i","o","n","d","e","t","a","i","l","e","d">>
Str_conditionexact == <<"c","o","n","d","i","t","i","o","n","e","x","a","c","t">>
Str_temperature == <<"t","e","m","p","e","r","a","t","u","r","e">>
Str_average == <<"a","v","e","r","a","g","e">>
Str_total == <<"t","o","t","a","l">>
Str_1d == <<"_","1","d">>
Str_2d == <<"_","2","d">>
Str_3d == <<"_","3","d">>
Str_4d == <<"_","4","d">>
Str_5d == <<"_","5","d">>
Str_us == <<"_">>

\* str.startswith(prefix) / str.endswith(suffix), and with a tuple of them
StartsWith(s, p) == Len(s) >= Len(p) /\ SubSeq(s, 1, Len(p)) = p

EndsWith(s, p) == Len(s) >= Len(p) /\ SubSeq(s, Len(s) - Len(p) + 1, Len(s)) = p

StartsWithAny(s, ps) == \E p \in ps : StartsWith(s, p)

EndsWithAny(s, ps) == \E p \in ps : EndsWith(s, p)

\* s[:-n] and s[n:]
DropLast(s, n) == SubSeq(s, 1, Len(s) - n)

DropFirst(s, n) == SubSeq(s, n + 1, Len(s))

\* ---------------------------------------------------------------- values
None == [t |-> "None", v |-> 0]

\* a datetime, an int, a float with one decimal (v counts tenths), a str
DateTime(n) == [t |-> "datetime", v |-> n]

PyInt(n) == [t |-> "int", v |-> n]

PyFloat(tenths) == [t |-> "float", v |-> tenths]

Text(s) == [t |-> "str", v |-> s]

Dict(f) == [t |-> "dict", v |-> f]

List(q) == [t |-> "list", v |-> q]

\* local_dt.strftime("%c") of the datetime n
Strftime(dt) == [t |-> "strftime", v |-> dt.v]

EmptyMap == [k \in {} |-> None]

\* dict.get(k): the value, or None when the key is absent
Get(d, k) == IF k \in DOMAIN d THEN d[k] ELSE None

\* truth value of a Python object as `if x:` takes it
Truthy(x) ==
    CASE x.t = "None" -> FALSE
      [] x.t = "dict" -> DOMAIN x.v # {}
      [] x.t = "list" -> Len(x.v) > 0
      [] x.t = "str" -> x.v # ""
      [] x.t \in {"int", "float"} -> x.v # 0
      [] x.t = "bool" -> x.v
      [] OTHER -> TRUE

RECURSIVE Gcd(_, _)
Gcd(a, b) == IF b = 0 THEN a ELSE Gcd(b, a % b)

RECURSIVE IsPowerOfTwo(_)
IsPowerOfTwo(n) == n = 1 \/ (n > 1 /\ n % 2 = 0 /\ IsPowerOfTwo(n \div 2))

\* whether num/den (den > 0, num >= 0) is a binary fraction, i.e. a double
\* holds it exactly (for the magnitudes used here)
IsDyadic(num, den) == IsPowerOfTwo(den \div Gcd(num, den))

\* round(num/den, 1) as tenths, for num >= 0: Python rounds the double
\* correctly, so off a tie the nearest tenth; on a tie the double holds
\* exactly, round-half-even; on a decimal tie the double is not exact and lies
\* on either side of it, so either neighbour can come out.
Round1(num, den) ==
    LET q == (10 * num) \div den
        r == (10 * num) % den
    IN  IF 2 * r < den THEN {q}
        ELSE IF 2 * r > den THEN {q + 1}
        ELSE IF IsDyadic(num, den) THEN {IF q % 2 = 0 THEN q ELSE q + 1}
        ELSE {q, q + 1}

\* the numeric value of an int or float as a fraction <<num, den>>
AsFraction(x) == IF x.t = "float" THEN <<x.v, 10>> ELSE <<x.v, 1>>

\* ---------------------------------------------------------------- BrSensor
\* BrSensor.__init__: the fields of a new sensor. _timeframe exists only on
\* precipitation-forecast sensors ("NoAttr" elsewhere).
BrSensorInit(key) ==
    [ _measured |-> None,
      _attr_native_value |-> None,
      _attr_entity_picture |-> None,
      _attr_extra_state_attributes |-> None,
      _timeframe |-> IF StartsWith(key, PRECIPITATION_FORECAST)
                     THEN None ELSE [t |-> "NoAttr", v |-> 0] ]

\* SensorEntity.state and Entity.entity_picture as the sensor reads them
State(self) == self._attr_native_value

EntityPicture(self) == self._attr_entity_picture

\* the outcome of a call: the sensor after it, the value returned (ret, when
\* nothing was raised), the exception that left it (raised, "" for none),
\* whether a warning was logged and how often the state was written to hass
Return(self, ret) ==
    [self |-> self, ret |-> ret, raised |-> "", warned |-> FALSE, writes |-> 0]

Raise(self, exc) ==
    [self |-> self, ret |-> FALSE, raised |-> exc, warned |-> FALSE, writes |-> 0]

\* except IndexError: _LOGGER.warning(...); return False
NoForecast(self) ==
    [self |-> self, ret |-> FALSE, raised |-> "", warned |-> TRUE, writes |-> 0]

\* the lookup with a missing day read as None instead of an IndexError
ForecastDayGet_NoIndexError(data, fcday, k) ==
    LET fc == Get(data, FORECAST)
    IN  IF fc.t # "list" THEN [exc |-> "TypeError", val |-> None]
        ELSE IF fcday >= Len(fc.v) THEN [exc |-> "", val |-> None]
        ELSE [exc |-> "", val |-> Get(fc.v[fcday + 1].v, k)]

\* the expression data.get(FORECAST)[fcday].get(k): its value, or the
\* exception it raises (None is not subscriptable, index out of range, None
\* has no .get)
ForecastDayGet(data, fcday, k) ==
    LET fc == Get(data, FORECAST)
    IN  IF fc.t # "list" THEN [exc |-> "TypeError", val |-> None]
        ELSE IF fcday >= Len(fc.v) THEN [exc |-> "IndexError", val |-> None]
        ELSE LET day == fc.v[fcday + 1]
             IN  IF day.t # "dict" THEN [exc |-> "AttributeError", val |-> None]
                 ELSE [exc |-> "", val |-> Get(day.v, k)]

\* the day index counted from one instead of zero
_get_forecast_day_OneBased(sensor_type) ==
    IF EndsWith(sensor_type, Str_1d) THEN 1
    ELSE IF EndsWith(sensor_type, Str_2d) THEN 2
    ELSE IF EndsWith(sensor_type, Str_3d) THEN 3
    ELSE IF EndsWith(sensor_type, Str_4d) THEN 4
    ELSE IF EndsWith(sensor_type, Str_5d) THEN 5
    ELSE 0

_get_forecast_day(sensor_type) ==
    IF EndsWith(sensor_type, Str_1d) THEN 0
    ELSE IF EndsWith(sensor_type, Str_2d) THEN 1
    ELSE IF EndsWith(sensor_type, Str_3d) THEN 2
    ELSE IF EndsWith(sensor_type, Str_4d) THEN 3
    ELSE IF EndsWith(sensor_type, Str_5d) THEN 4
    ELSE 0

_get_condition_state(condition, sensor_type) ==
    IF StartsWith(sensor_type, SYMBOL) THEN Get(condition, EXACTNL)
    ELSE IF StartsWith(sensor_type, CONDITION) THEN Get(condition, CONDITION)
    ELSE IF StartsWith(sensor_type, Str_conditioncode) THEN Get(condition, CONDCODE)
    ELSE IF StartsWith(sensor_type, Str_conditiondetailed) THEN Get(condition, DETAILED)
    ELSE IF StartsWith(sensor_type, Str_conditionexact) THEN Get(condition, EXACT)
    ELSE None

\* the condition update reporting a change on every fresh snapshot, as the
\* other sensors do
StoreCondition_FreshnessOnly(self, condition, sensor_type) ==
    IF Truthy(condition)
    THEN {Return([self EXCEPT
                    !._attr_native_value = _get_condition_state(condition.v, sensor_type),
                    !._attr_entity_picture = Get(condition.v, IMAGE)], TRUE)}
    ELSE {Return(self, FALSE)}

\* the condition update comparing only the value with the stored one
StoreCondition_ComparesValueOnly(self, condition, sensor_type) ==
    IF Truthy(condition)
    THEN LET new_state == _get_condition_state(condition.v, sensor_type)
             img == Get(condition.v, IMAGE)
         IN  IF new_state # State(self)
             THEN {Return([self EXCEPT !._attr_native_value = new_state,
                                       !._attr_entity_picture = img], TRUE)}
             ELSE {Return(self, FALSE)}
    ELSE {Return(self, FALSE)}

\* the shared tail of the two condition updates: `if condition:` and the
\* comparison of the new value and image with the stored ones
StoreCondition(self, condition, sensor_type) ==
    IF Truthy(condition)
    THEN LET new_state == _get_condition_state(condition.v, sensor_type)
             img == Get(condition.v, IMAGE)
         IN  IF new_state # State(self) \/ img # EntityPicture(self)
             THEN {Return([self EXCEPT !._attr_native_value = new_state,
                                       !._attr_entity_picture = img], TRUE)}
             ELSE {Return(self, FALSE)}
    ELSE {Return(self, FALSE)}

_update_weather_condition(self, data, fcday, sensor_type) ==
    LET e == ForecastDayGet(data, fcday, CONDITION)
    IN  IF e.exc = "IndexError" THEN {NoForecast(self)}
        ELSE IF e.exc # "" THEN {Raise(self, e.exc)}
        ELSE StoreCondition(self, e.val, sensor_type)

\* the conversion cutting the decimals off instead of rounding
RoundScaled_Truncating(self, fnum, fden) ==
    LET x == AsFraction(self._attr_native_value)
    IN  {[self EXCEPT !._attr_native_value =
                          PyFloat((10 * x[1] * fnum) \div (x[2] * fden))]}

\* self._attr_native_value = round(self._attr_native_value * factor, 1), the
\* factor given as the fraction fnum/fden
RoundScaled(self, fnum, fden) ==
    LET x == AsFraction(self._attr_native_value)
    IN  { [self EXCEPT !._attr_native_value = PyFloat(r)] :
            r \in Round1(x[1] * fnum, x[2] * fden) }

\* if self.state is not None: convert; return True
ConvertIfSet(self, fnum, fden) ==
    IF State(self) # None
    THEN { Return(s, TRUE) : s \in RoundScaled(self, fnum, fden) }
    ELSE {Return(self, TRUE)}

_update_wind_forecast(self, data, fcday, sensor_type) ==
    LET e == ForecastDayGet(data, fcday, DropLast(sensor_type, 3))
    IN  IF e.exc = "IndexError" THEN {NoForecast(self)}
        ELSE IF e.exc # "" THEN {Raise(self, e.exc)}
        ELSE ConvertIfSet([self EXCEPT !._attr_native_value = e.val], 36, 10)

_update_general_forecast(self, data, fcday, sensor_type) ==
    LET e == ForecastDayGet(data, fcday, DropLast(sensor_type, 3))
    IN  IF e.exc = "IndexError" THEN {NoForecast(self)}
        ELSE IF e.exc # "" THEN {Raise(self, e.exc)}
        ELSE {Return([self EXCEPT !._attr_native_value = e.val], TRUE)}

_update_forecasting_sensors(self, data, sensor_type) ==
    LET fcday == _get_forecast_day(sensor_type)
    IN  IF StartsWithAny(sensor_type, {SYMBOL, CONDITION})
        THEN _update_weather_condition(self, data, fcday, sensor_type)
        ELSE IF StartsWith(sensor_type, WINDSPEED)
        THEN _update_wind_forecast(self, data, fcday, sensor_type)
        ELSE _update_general_forecast(self, data, fcday, sensor_type)

_update_condition_symbol(self, data, sensor_type) ==
    StoreCondition(self, Get(data, CONDITION), sensor_type)

_update_precipitation_forecast(self, data, sensor_type) ==
    LET nested == Get(data, PRECIPITATION_FORECAST)
    IN  IF nested.t # "dict" THEN {Raise(self, "AttributeError")}
        ELSE {Return([self EXCEPT
                 !._timeframe = Get(nested.v, TIMEFRAME),
                 !._attr_native_value =
                     Get(nested.v, DropFirst(sensor_type, Len(PRECIPITATION_FORECAST) + 1))],
               TRUE)}

_update_wind_speed(self, data, sensor_type) ==
    ConvertIfSet([self EXCEPT !._attr_native_value = Get(data, sensor_type)], 36, 10)

\* the visibility divided by 100 instead of 1000
_update_visibility_Div100(self, data) ==
    ConvertIfSet([self EXCEPT !._attr_native_value = Get(data, VISIBILITY)], 1, 100)

_update_visibility(self, data) ==
    ConvertIfSet([self EXCEPT !._attr_native_value = Get(data, VISIBILITY)], 1, 1000)

\* the attributes written into the map the sensor already has instead of
\* into a new one
_update_other_sensors_MergesAttributes(self, data, sensor_type) ==
    LET base == (ATTR_ATTRIBUTION :> Get(data, ATTRIBUTION))
                @@ (STATIONNAME_LABEL :> Get(data, STATIONNAME))
        fresh == IF self._measured # None
                 THEN (MEASURED_LABEL :> Strftime(self._measured)) @@ base
                 ELSE base
        old == self._attr_extra_state_attributes
        result == IF old.t = "dict" THEN fresh @@ old.v ELSE fresh
    IN  {Return([self EXCEPT !._attr_native_value = Get(data, sensor_type),
                             !._attr_extra_state_attributes = Dict(result)], TRUE)}

_update_other_sensors(self, data, sensor_type) ==
    LET base == (ATTR_ATTRIBUTION :> Get(data, ATTRIBUTION))
                @@ (STATIONNAME_LABEL :> Get(data, STATIONNAME))
        result == IF self._measured # None
                  THEN base @@ (MEASURED_LABEL :> Strftime(self._measured))
                  ELSE base
    IN  {Return([self EXCEPT !._attr_native_value = Get(data, sensor_type),
                             !._attr_extra_state_attributes = Dict(result)], TRUE)}

\* the dispatch sending every key that starts with symbol or condition to the
\* condition branch
Dispatch_ConditionByPrefix(self, data, sensor_type) ==
    IF EndsWithAny(sensor_type, {Str_1d, Str_2d, Str_3d, Str_4d, Str_5d})
    THEN _update_forecasting_sensors(self, data, sensor_type)
    ELSE IF StartsWithAny(sensor_type, {SYMBOL, CONDITION})
    THEN _update_condition_symbol(self, data, sensor_type)
    ELSE IF StartsWith(sensor_type, PRECIPITATION_FORECAST)
    THEN _update_precipitation_forecast(self, data, sensor_type)
    ELSE IF sensor_type \in {WINDSPEED, WINDGUST}
    THEN _update_wind_speed(self, data, sensor_type)
    ELSE IF sensor_type = VISIBILITY
    THEN _update_visibility(self, data)
    ELSE _update_other_sensors(self, data, sensor_type)

\* the steps of _load_data after the freshness gate
Dispatch(self, data, sensor_type) ==
    IF EndsWithAny(sensor_type, {Str_1d, Str_2d, Str_3d, Str_4d, Str_5d})
    THEN _update_forecasting_sensors(self, data, sensor_type)
    ELSE IF sensor_type \in {SYMBOL, CONDITION}
    THEN _update_condition_symbol(self, data, sensor_type)
    ELSE IF StartsWith(sensor_type, PRECIPITATION_FORECAST)
    THEN _update_precipitation_forecast(self, data, sensor_type)
    ELSE IF sensor_type \in {WINDSPEED, WINDGUST}
    THEN _update_wind_speed(self, data, sensor_type)
    ELSE IF sensor_type = VISIBILITY
    THEN _update_visibility(self, data)
    ELSE _update_other_sensors(self, data, sensor_type)

\* _load_data without its freshness gate
_load_data_NoGate(self, data, sensor_type) ==
    Dispatch([self EXCEPT !._measured = Get(data, MEASURED)], data, sensor_type)

\* _load_data recording measured only when the update reports a change
_load_data_MeasuredOnChange(self, data, sensor_type) ==
    IF self._measured = Get(data, MEASURED)
    THEN {Return(self, FALSE)}
    ELSE { IF o.ret THEN [o EXCEPT !.self._measured = Get(data, MEASURED)] ELSE o :
             o \in Dispatch(self, data, sensor_type) }

\* _load_data with a gate that lets only a later measured through
_load_data_OnlyNewer(self, data, sensor_type) ==
    LET old == self._measured
        new == Get(data, MEASURED)
    IN  IF old = new \/ (old # None /\ (new = None \/ new.v < old.v))
        THEN {Return(self, FALSE)}
        ELSE Dispatch([self EXCEPT !._measured = new], data, sensor_type)

\* _load_data with a gate that never stops a sensor that has no measured yet
_load_data_UnsetAlwaysLoads(self, data, sensor_type) ==
    IF self._measured # None /\ self._measured = Get(data, MEASURED)
    THEN {Return(self, FALSE)}
    ELSE Dispatch([self EXCEPT !._measured = Get(data, MEASURED)], data, sensor_type)

\* BrSensor._load_data(data) of the sensor whose entity_description.key is
\* sensor_type: the set of its possible outcomes
_load_data(self, data, sensor_type) ==
    IF self._measured = Get(data, MEASURED)
    THEN {Return(self, FALSE)}
    ELSE Dispatch([self EXCEPT !._measured = Get(data, MEASURED)], data, sensor_type)

\* ---------------------------------------------------------------- inputs
\* the sensors modelled: entity_description.key of some of SENSOR_TYPES, one
\* or more of every kind the dispatch tells apart and every day suffix
SensorKeys ==
    { SYMBOL, CONDITION, Str_conditioncode, Str_conditiondetailed, Str_conditionexact,
      Str_temperature, WINDSPEED, WINDGUST,
      VISIBILITY, PRECIPITATION_FORECAST \o Str_us \o Str_average,
      SYMBOL \o Str_1d, CONDITION \o Str_2d, Str_conditioncode \o Str_3d,
      Str_conditiondetailed \o Str_4d, Str_conditionexact \o Str_5d,
      WINDSPEED \o Str_1d, Str_temperature \o Str_2d, Str_temperature \o Str_5d }

Put(d, k, x) == (k :> x) @@ d

Remove(d, k) == [x \in DOMAIN d \ {k} |-> d[x]]

CondDoc(cond, code, detailed, exact, exactnl, image) ==
    Dict((CONDITION :> Text(cond)) @@ (CONDCODE :> Text(code))
         @@ (DETAILED :> Text(detailed)) @@ (EXACT :> Text(exact))
         @@ (EXACTNL :> Text(exactnl)) @@ (IMAGE :> Text(image)))

CondA == CondDoc("cloudy", "c", "partlycloudy", "Partly cloudy", "Half bewolkt", "c.png")

\* CondA with another image
CondA2 == CondDoc("cloudy", "c", "partlycloudy", "Partly cloudy", "Half bewolkt", "cc.png")

\* other texts, the image of CondA
CondB == CondDoc("rainy", "q", "light-rain", "Light rain", "Lichte regen", "c.png")

\* the condition text of CondA, the other texts changed
CondC == CondDoc("cloudy", "b", "cloudy", "Overcast", "Zwaar bewolkt", "c.png")

\* a condition document holding an image only
CondP == Dict(IMAGE :> Text("c.png"))

CondDocs == <<Dict(EmptyMap), CondA2, CondB, CondC, CondP>>

\* top-level scalar fields; wind speeds in m/s, the visibility in metres
Scalars ==
    (Str_temperature :> PyFloat(215)) @@ (WINDSPEED :> PyFloat(100))
    @@ (WINDGUST :> PyFloat(0)) @@ (VISIBILITY :> PyInt(15000))
    @@ (ATTRIBUTION :> Text("Data provided by buienradar.nl"))
    @@ (STATIONNAME :> Text("De Bilt")) @@ (Str_conditioncode :> Text("top"))
    @@ (Str_conditiondetailed :> Text("top-detailed"))
    @@ (Str_conditionexact :> Text("top-exact"))

PrecipA ==
    Dict((TIMEFRAME :> PyInt(60)) @@ (Str_average :> PyFloat(12))
         @@ (Str_total :> PyFloat(12)))

PrecipB == Dict(Str_average :> PyFloat(12))

\* per-day documents of a forecast
DayDocs ==
    << Dict((Str_temperature :> PyFloat(70)) @@ (WINDSPEED :> PyFloat(100))
            @@ (CONDITION :> CondA)),
       Dict((Str_temperature :> PyFloat(70)) @@ (WINDSPEED :> PyFloat(0))
            @@ (CONDITION :> CondB)),
       Dict((WINDSPEED :> PyFloat(13)) @@ (CONDITION :> CondC)),
       Dict((Str_temperature :> PyFloat(55)) @@ (CONDITION :> CondA2)),
       Dict(CONDITION :> CondP),
       Dict(EmptyMap) >>

\* a forecast of n days: day i holds the document i + rot of DayDocs (cyclic)
ForecastOf(n, rot) ==
    List([i \in 1..n |-> DayDocs[((i + rot - 1) % Len(DayDocs)) + 1]])

\* forecasts of every length below MaxDays, and of the full length every
\* other rotation, so that every day sees every document
Forecasts ==
    [i \in 1..(MaxDays + Len(DayDocs) - 1) |->
        IF i <= MaxDays THEN ForecastOf(i - 1, 0) ELSE ForecastOf(MaxDays, i - MaxDays)]

Base ==
    Scalars @@ (CONDITION :> CondA) @@ (PRECIPITATION_FORECAST :> PrecipA)
    @@ (FORECAST :> ForecastOf(MaxDays, 0))

\* snapshot documents without their measured field: the empty one, and Base
\* with some part varied or absent
Docs ==
    << EmptyMap,
       Base,
       Put(Put(Remove(Base, WINDGUST), VISIBILITY, PyInt(250)), WINDSPEED, PyFloat(13)),
       Put(Put(Remove(Remove(Base, Str_temperature), Str_conditioncode),
               WINDSPEED, PyFloat(0)), VISIBILITY, PyInt(50)),
       Put(Remove(Remove(Remove(Base, WINDSPEED), VISIBILITY), ATTRIBUTION),
           WINDGUST, PyFloat(13)),
       Put(Put(Remove(Base, STATIONNAME), VISIBILITY, PyInt(1270)),
           Str_temperature, PyFloat(198)),
       Remove(Base, CONDITION),
       Remove(Base, PRECIPITATION_FORECAST),
       Put(Base, PRECIPITATION_FORECAST, Dict(EmptyMap)),
       Put(Base, PRECIPITATION_FORECAST, PrecipB),
       Remove(Base, FORECAST) >>
    \o [i \in 1..Len(CondDocs) |-> Put(Base, CONDITION, CondDocs[i])]
    \o [i \in 1..Len(Forecasts) |-> Put(Base, FORECAST, Forecasts[i])]

\* the documents that also come without a measured field: the empty one, Base
\* and Base with its wind and visibility changed
Unmeasured == {1, 2, 3}

\* a snapshot is named by its document and its measured timestamp (0: the
\* document has no measured field)
SnapshotIds ==
    [doc : 1..Len(Docs), m : 1..MaxTime] \cup [doc : Unmeasured, m : {0}]

\* BrData.data as handed to data_updated, by document and measured
Snapshots ==
    [d \in 1..Len(Docs) |->
        [m \in 0..MaxTime |->
            IF m = 0 THEN Docs[d] ELSE Put(Docs[d], MEASURED, DateTime(m))]]

Snapshot(id) == Snapshots[id.doc][id.m]

\* ---------------------------------------------------------------- state
VARIABLES
    key,        \* entity_description.key of the sensor
    sensor,     \* the sensor's fields
    hass,       \* whether self.hass is set (the entity was added to hass)
    op,         \* the last operation
    data,       \* the snapshot (its id) of the last data_updated call
    prev,       \* the sensor's fields before that call
    returned,   \* what _load_data returned in that call
    raised,     \* the exception that left that call ("" for none)
    warned,     \* whether that call logged a warning
    writes      \* how often that call wrote the state to hass

sensorVars == <<key, sensor, hass, op, data, prev, returned, raised, warned, writes>>

SensorInit ==
    /\ key \in SensorKeys
    /\ sensor = BrSensorInit(key)
    /\ hass = FALSE
    /\ op = "init"
    /\ data = [doc |-> 1, m |-> 0]
    /\ prev = sensor
    /\ returned = FALSE
    /\ raised = ""
    /\ warned = FALSE
    /\ writes = 0

\* data_updated writing the state without looking at self.hass
data_updated_IgnoresHass(self, d, sensor_type, attached) ==
    { IF out.raised = "" /\ out.ret
      THEN [out EXCEPT !.writes = out.writes + 1]
      ELSE out : out \in _load_data(self, d, sensor_type) }

\* BrSensor.data_updated(data): if self._load_data(data.data) and self.hass:
\* self.async_write_ha_state(). An exception of _load_data leaves the call.
data_updated(self, d, sensor_type, attached) ==
    { IF out.raised = "" /\ out.ret /\ attached
      THEN [out EXCEPT !.writes = out.writes + 1]
      ELSE out : out \in _load_data(self, d, sensor_type) }

DataUpdated ==
    \E d \in SnapshotIds :
        \E out \in data_updated(sensor, Snapshot(d), key, hass) :
            /\ sensor' = out.self
            /\ prev' = sensor
            /\ data' = d
            /\ returned' = out.ret
            /\ raised' = out.raised
            /\ warned' = out.warned
            /\ writes' = out.writes
            /\ op' = "data_updated"
            /\ UNCHANGED <<key, hass>>

\* async_add_entities(entities): the platform sets self.hass, after the first
\* data.async_update() has already run
AddedToHass ==
    /\ ~hass
    /\ hass' = TRUE
    /\ op' = "added_to_hass"
    /\ UNCHANGED <<key, sensor, data, prev, returned, raised, warned, writes>>

\* ---------------------------------------------------------------- config flow
CONF_BASE_URL == "base_url"
CONF_API_KEY == "api_key"
CONF_ENABLE_MEMORY == "enable_memory"
CONF_RECOMMENDED == "recommended"
CONF_LLM_HASS_API == "llm_hass_api"
CONF_PROMPT == "prompt"

PyBool(b) == [t |-> "bool", v |-> b]

\* dict.get(k, default)
GetOr(d, k, default) == IF k \in DOMAIN d THEN d[k] ELSE default

RECOMMENDED_OPTIONS ==
    Dict((CONF_RECOMMENDED :> PyBool(TRUE)) @@ (CONF_LLM_HASS_API :> Text("assist"))
         @@ (CONF_PROMPT :> Text("DEFAULT_INSTRUCTIONS_PROMPT")))

\* the classes an exception is an instance of: the openai errors derive from
\* OpenAIError, requests' HTTPError from OSError, all of them from Exception
ExceptionBases ==
    [ APIConnectionError |-> {"APIConnectionError", "APIError", "OpenAIError", "Exception"},
      APITimeoutError |-> {"APITimeoutError", "APIConnectionError", "APIError",
                           "OpenAIError", "Exception"},
      AuthenticationError |-> {"AuthenticationError", "APIStatusError", "APIError",
                               "OpenAIError", "Exception"},
      HTTPError |-> {"HTTPError", "RequestException", "OSError", "Exception"},
      ValueError |-> {"ValueError", "Exception"} ]

\* whether `except cls:` catches the exception exc
Catches(cls, exc) == cls \in ExceptionBases[exc]

\* what the remote service does when called: answers (exc = "") or makes the
\* client raise exc
RemoteOutcomes == {""} \cup DOMAIN ExceptionBases

\* what a call did: the value returned, the exception raised ("" for none),
\* and what was logged with _LOGGER.error or _LOGGER.exception
Called(value, exc, logged) == [value |-> value, raised |-> exc, logged |-> logged]

\* fetch_model_list_or_validate(hass, data, validate_only=True): lists the
\* models to test the connection; an APIConnectionError is logged and raised
\* again, any other exception leaves the function as it is
fetch_model_list_or_validate(remote) ==
    IF remote = "" THEN Called(None, "", "")
    ELSE IF Catches("APIConnectionError", remote)
    THEN Called(None, remote, "API Connection Error")
    ELSE Called(None, remote, "")

\* async_show_form(step_id="user", data_schema=STEP_USER_DATA_SCHEMA, errors=errors)
ShowUserForm(errors) ==
    [type |-> "form", step_id |-> "user", errors |-> errors, title |-> "",
     data |-> None, options |-> None]

\* async_create_entry(title="ChatGPT", data=user_input, options=RECOMMENDED_OPTIONS)
CreateEntry(user_input) ==
    [type |-> "create_entry", step_id |-> "", errors |-> None, title |-> "ChatGPT",
     data |-> user_input, options |-> RECOMMENDED_OPTIONS]

\* the except clauses with `except Exception` ahead of the others
HandleUserError_ExceptionFirst(exc) ==
    IF Catches("Exception", exc)
    THEN Called(ShowUserForm(Dict("base" :> Text("unknown"))), "", "Unexpected exception")
    ELSE Called(None, exc, "")

\* the except clauses of async_step_user, in their order: the errors of the
\* form shown again and what _LOGGER.exception logged
HandleUserError(exc) ==
    IF Catches("APIConnectionError", exc)
    THEN Called(ShowUserForm(Dict("base" :> Text("unknown"))), "", "")
    ELSE IF Catches("AuthenticationError", exc)
    THEN Called(ShowUserForm(Dict("base" :> Text("invalid_auth"))), "", "")
    ELSE IF Catches("Exception", exc)
    THEN Called(ShowUserForm(Dict("base" :> Text("unknown"))), "", "Unexpected exception")
    ELSE Called(None, exc, "")

\* OpenAIConfigFlow.async_step_user(user_input), the remote service behaving
\* as `remote` when the step calls it (through fetch_model_list_or_validate
\* without memory, through list_LLM_backends with memory)
async_step_user(user_input, remote) ==
    IF user_input = None
    THEN Called(ShowUserForm(None), "", "")
    ELSE LET call == IF ~GetOr(user_input.v, CONF_ENABLE_MEMORY, PyBool(FALSE)).v
                     THEN fetch_model_list_or_validate(remote)
                     ELSE Called(None, remote, "")
         IN  IF call.raised = ""
             THEN Called(CreateEntry(user_input), "", "")
             ELSE LET h == HandleUserError(call.raised)
                  IN  [h EXCEPT !.logged =
                          IF h.logged # "" THEN h.logged ELSE call.logged]

\* what the user can submit: STEP_USER_DATA_SCHEMA requires the three fields
UserInputs ==
    { Dict((CONF_BASE_URL :> Text(u)) @@ (CONF_API_KEY :> Text(k))
           @@ (CONF_ENABLE_MEMORY :> PyBool(m))) :
        u \in {"https://api.openai.com/v1", "http://localhost:8283"},
        k \in {"sk-good", "sk-bad", ""},
        m \in BOOLEAN }

\* ---------------------------------------------------------------- options flow
CONF_CHAT_MODEL == "chat_model"
CONF_AGENT == "agent"
CONF_MAX_TOKENS == "max_tokens"
CONF_TEMPERATURE == "temperature"
CONF_TOP_P == "top_p"

\* a local variable that no statement has assigned yet
Unbound == [t |-> "Unbound", v |-> 0]

\* OpenAIOptionsFlow.__init__(config_entry), the entry a record of its data
\* and options
OpenAIOptionsFlowInit(config_entry) ==
    [ config_entry |-> config_entry,
      last_rendered_recommended |->
          GetOr(config_entry.options, CONF_RECOMMENDED, PyBool(FALSE)) ]

\* what the remote service does when the options step calls it: it answers
\* the model listing with ids, answers list_agents with a response of some
\* status_code whose text is a JSON list of agents or is no JSON at all, or
\* makes the client raise exc
Answer(kind, names) == [exc |-> "", kind |-> kind, names |-> names]

Raises(exc) == [exc |-> exc, kind |-> "", names |-> <<>>]

ModelAnswers == {Answer("models", <<"gpt-4o", "gpt-4o-mini">>), Answer("models", <<>>)}

AgentAnswers ==
    { Answer("status_200", <<"agent-1", "">>), Answer("status_200", <<>>),
      Answer("status_200_not_json", <<>>), Answer("status_404", <<>>) }

\* fetch_model_list_or_validate(hass, data) with validate_only=False: the ids
\* of the models listed; an APIConnectionError is logged and raised again
fetch_model_list(remote) ==
    IF remote.exc = "" THEN Called(List(remote.names), "", "")
    ELSE IF Catches("APIConnectionError", remote.exc)
    THEN Called(None, remote.exc, "API Connection Error")
    ELSE Called(None, remote.exc, "")

\* the statements inside the try of async_step_init: the two local lists as
\* they are when the try is left, and the exception that leaves it
TryLookup(memory, remote) ==
    IF ~memory
    THEN LET c == fetch_model_list(remote)
         IN  [model_id_list |-> c.value, agent_name_list |-> Unbound,
              exc |-> c.raised, logged |-> c.logged]
    ELSE IF remote.exc # ""
    THEN [model_id_list |-> None, agent_name_list |-> Unbound,
          exc |-> remote.exc, logged |-> ""]
    ELSE IF remote.kind = "status_200"
    THEN [model_id_list |-> None, agent_name_list |-> List(remote.names),
          exc |-> "", logged |-> ""]
    ELSE IF remote.kind = "status_200_not_json"
    THEN [model_id_list |-> None, agent_name_list |-> Unbound,
          exc |-> "ValueError", logged |-> ""]
    ELSE [model_id_list |-> None, agent_name_list |-> Unbound,
          exc |-> "", logged |-> ""]

\* the try of async_step_init with its except clauses
RemoteLookup(memory, remote) ==
    LET t == TryLookup(memory, remote)
    IN  IF t.exc = "" THEN t
        ELSE IF Catches("APIConnectionError", t.exc)
        THEN [t EXCEPT !.model_id_list = List(<<"gpt-4o-mini">>), !.exc = ""]
        ELSE IF Catches("HTTPError", t.exc)
        THEN [t EXCEPT !.exc = "", !.logged = "Error rendering prompt"]
        ELSE t

\* openai_config_option_schema(hass, options, id_list, is_memory_enabled): the
\* fields of the schema, the suggested values and defaults taken from options,
\* and the choices of the model or agent selector
openai_config_option_schema(options, id_list, is_memory_enabled) ==
    LET base == [ fields |-> {CONF_PROMPT, CONF_LLM_HASS_API, CONF_RECOMMENDED},
                  prompt |-> GetOr(options, CONF_PROMPT, Text("DEFAULT_INSTRUCTIONS_PROMPT")),
                  llm_hass_api |-> Get(options, CONF_LLM_HASS_API),
                  recommended |-> GetOr(options, CONF_RECOMMENDED, PyBool(FALSE)),
                  choices |-> None ]
    IN  IF Truthy(Get(options, CONF_RECOMMENDED)) THEN base
        ELSE [base EXCEPT
                !.fields = @ \cup {IF is_memory_enabled THEN CONF_AGENT ELSE CONF_CHAT_MODEL}
                             \cup {CONF_MAX_TOKENS, CONF_TEMPERATURE, CONF_TOP_P},
                !.choices = id_list]

\* async_show_form(step_id="init", data_schema=vol.Schema(schema))
ShowInitForm(schema) ==
    [type |-> "form", step_id |-> "init", data_schema |-> schema, data |-> None]

\* async_create_entry(title="", data=user_input)
CreateOptionsEntry(saved) ==
    [type |-> "create_entry", step_id |-> "", data_schema |-> None, data |-> saved]

\* the outcome of a step of the options flow: the flow object after it, the
\* result returned, the exception that left the step and what it logged
StepOutcome(self, value, exc, logged) ==
    [self |-> self, value |-> value, raised |-> exc, logged |-> logged]

\* the end of async_step_init: the schema built from the looked-up lists
RenderInit(self, options, memory, remote) ==
    LET l == RemoteLookup(memory, remote)
    IN  IF l.exc # "" THEN StepOutcome(self, None, l.exc, l.logged)
        ELSE IF Truthy(l.model_id_list)
        THEN StepOutcome(self,
                 ShowInitForm(openai_config_option_schema(options, l.model_id_list, FALSE)),
                 "", l.logged)
        ELSE IF l.agent_name_list = Unbound
        THEN StepOutcome(self, None, "UnboundLocalError", l.logged)
        ELSE StepOutcome(self,
                 ShowInitForm(openai_config_option_schema(options, l.agent_name_list, memory)),
                 "", l.logged)

\* user_input[CONF_RECOMMENDED] == self.last_rendered_recommended
SameAsRendered(self, user_input) ==
    user_input.v[CONF_RECOMMENDED] = self.last_rendered_recommended

\* the input saved with its "none" left in
SavedOptions_KeepsNone(user_input) == user_input

\* the data of the entry created: user_input after
\* `if user_input[CONF_LLM_HASS_API] == "none": user_input.pop(CONF_LLM_HASS_API)`
SavedOptions(user_input) ==
    IF user_input.v[CONF_LLM_HASS_API] = Text("none")
    THEN Dict(Remove(user_input.v, CONF_LLM_HASS_API))
    ELSE user_input

\* OpenAIOptionsFlow.async_step_init(user_input), the remote service behaving
\* as `remote`
async_step_init(self, user_input, remote) ==
    LET entry == self.config_entry
        memory == Truthy(GetOr(entry.data, CONF_ENABLE_MEMORY, PyBool(FALSE)))
    IN  IF user_input = None
        THEN RenderInit(self, entry.options, memory, remote)
        ELSE IF SameAsRendered(self, user_input)
        THEN StepOutcome(self, CreateOptionsEntry(SavedOptions(user_input)), "", "")
        ELSE LET shown == [self EXCEPT
                              !.last_rendered_recommended = user_input.v[CONF_RECOMMENDED]]
             IN  IF CONF_PROMPT \notin DOMAIN user_input.v
                 THEN StepOutcome(shown, None, "KeyError", "")
                 ELSE RenderInit(shown,
                          (CONF_RECOMMENDED :> user_input.v[CONF_RECOMMENDED])
                          @@ (CONF_PROMPT :> user_input.v[CONF_PROMPT])
                          @@ (CONF_LLM_HASS_API :> user_input.v[CONF_LLM_HASS_API]),
                          memory, remote)

VARIABLES
    flow,        \* the config flow: "new", "form" (a form is shown) or "done"
    user_input,  \* the user_input of the last async_step_user call
    remote,      \* how the remote service behaved in that call
    result,      \* the ConfigFlowResult of that call (None if it raised)
    step_raised, \* the exception that left that call ("" for none)
    step_logged, \* what that call logged as an error
    attempts,    \* the submissions made in this flow
    entry        \* the config entry created (None for none)

flowVars == <<flow, user_input, remote, result, step_raised, step_logged, attempts, entry>>

FlowInit ==
    /\ flow = "new"
    /\ user_input = None
    /\ remote = ""
    /\ result = None
    /\ step_raised = ""
    /\ step_logged = ""
    /\ attempts = 0
    /\ entry = None

\* the step as the flow manager runs it: a created entry ends the flow
StepUser(input, r) ==
    LET c == async_step_user(input, r)
    IN  /\ user_input' = input
        /\ remote' = r
        /\ result' = c.value
        /\ step_raised' = c.raised
        /\ step_logged' = c.logged
        /\ flow' = IF c.raised # "" THEN "done"
                   ELSE IF c.value.type = "create_entry" THEN "done" ELSE "form"
        /\ entry' = IF c.raised = "" /\ c.value.type = "create_entry"
                    THEN Dict(("data" :> c.value.data) @@ ("options" :> c.value.options))
                    ELSE entry

\* the user starts the flow: async_step_user(None)
StepUserInit ==
    /\ flow = "new"
    /\ StepUser(None, "")
    /\ UNCHANGED attempts

\* the user submits the form: async_step_user(user_input)
StepUserSubmit ==
    /\ flow = "form"
    /\ attempts < MaxAttempts
    /\ attempts' = attempts + 1
    /\ \E input \in UserInputs, r \in RemoteOutcomes : StepUser(input, r)

\* ------------------------------------------------------- options flow inputs
EntryData(memory) ==
    (CONF_BASE_URL :> Text("https://api.openai.com/v1")) @@ (CONF_API_KEY :> Text("sk-good"))
    @@ (CONF_ENABLE_MEMORY :> PyBool(memory))

\* options saved by an earlier options flow with recommended switched off
CustomOptions ==
    (CONF_RECOMMENDED :> PyBool(FALSE)) @@ (CONF_PROMPT :> Text("Be brief"))
    @@ (CONF_CHAT_MODEL :> Text("gpt-4o")) @@ (CONF_MAX_TOKENS :> PyInt(150))
    @@ (CONF_TEMPERATURE :> PyFloat(10)) @@ (CONF_TOP_P :> PyFloat(10))

\* the config entries an options flow is opened for: as async_step_user
\* created them (with and without memory), with options saved since, and
\* entries of earlier versions without options or without the memory setting
ConfigEntries ==
    { [data |-> EntryData(FALSE), options |-> RECOMMENDED_OPTIONS.v],
      [data |-> EntryData(FALSE), options |-> CustomOptions],
      [data |-> EntryData(FALSE), options |-> [k \in {} |-> None]],
      [data |-> EntryData(TRUE), options |-> RECOMMENDED_OPTIONS.v],
      [data |-> EntryData(TRUE), options |-> Remove(CustomOptions, CONF_CHAT_MODEL)],
      [data |-> Remove(EntryData(FALSE), CONF_ENABLE_MEMORY), options |-> RECOMMENDED_OPTIONS.v] }

\* how the remote service may behave in a step of the flow of an entry
RemotesFor(config_entry) ==
    (IF Truthy(GetOr(config_entry.data, CONF_ENABLE_MEMORY, PyBool(FALSE)))
     THEN AgentAnswers ELSE ModelAnswers)
    \cup { Raises(e) : e \in DOMAIN ExceptionBases }

\* the entries of a selector's choices
Choices(schema) ==
    IF schema.choices.t = "list"
    THEN { Text(schema.choices.v[i]) : i \in 1..Len(schema.choices.v) }
    ELSE {}

\* what the user can submit to the form of a schema: recommended is required,
\* the LLM API and the fields with a default are always filled in, the prompt
\* and the agent may be left out
OptionsInputs(schema) ==
    LET required == { (CONF_RECOMMENDED :> PyBool(r)) @@ (CONF_LLM_HASS_API :> Text(a)) :
                        r \in BOOLEAN, a \in {"none", "assist"} }
        prompted == required \cup { (CONF_PROMPT :> Text("Be brief")) @@ f : f \in required }
        modelled == IF CONF_CHAT_MODEL \in schema.fields
                    THEN { (CONF_CHAT_MODEL :> m) @@ f :
                             f \in prompted, m \in Choices(schema) \cup {Text("gpt-4o-mini")} }
                    ELSE IF CONF_AGENT \in schema.fields
                    THEN prompted \cup { (CONF_AGENT :> a) @@ f :
                                          f \in prompted, a \in Choices(schema) }
                    ELSE prompted
        numbered == IF CONF_MAX_TOKENS \in schema.fields
                    THEN { (CONF_MAX_TOKENS :> PyInt(150)) @@ (CONF_TEMPERATURE :> PyFloat(10))
                           @@ (CONF_TOP_P :> PyFloat(10)) @@ f : f \in modelled }
                    ELSE modelled
    IN  { Dict(f) : f \in numbered }

VARIABLES
    options_flow,  \* the OpenAIOptionsFlow object (None before it is created)
    opt_prev,      \* the object before the last step
    opt_state,     \* "none", "open" (created), "form" (a form is shown), "done"
    opt_form,      \* the schema of the form on the screen (None for none)
    opt_input,     \* the user_input of the last async_step_init call
    opt_remote,    \* how the remote service behaved in that call
    opt_result,    \* the result of that call (None if it raised)
    opt_raised,    \* the exception that left that call ("" for none)
    opt_steps      \* the calls of async_step_init made in this flow

optionsVars ==
    <<options_flow, opt_prev, opt_state, opt_form, opt_input, opt_remote, opt_result,
      opt_raised, opt_steps>>

OptionsInit ==
    /\ options_flow = None
    /\ opt_prev = None
    /\ opt_state = "none"
    /\ opt_form = None
    /\ opt_input = None
    /\ opt_remote = Answer("", <<>>)
    /\ opt_result = None
    /\ opt_raised = ""
    /\ opt_steps = 0

\* async_get_options_flow(config_entry): the user opens the options of an entry
GetOptionsFlow ==
    /\ opt_state = "none"
    /\ \E e \in ConfigEntries :
         /\ options_flow' = OpenAIOptionsFlowInit(e)
         /\ opt_prev' = OpenAIOptionsFlowInit(e)
    /\ opt_state' = "open"
    /\ UNCHANGED <<opt_form, opt_input, opt_remote, opt_result, opt_raised, opt_steps>>

\* a step as the flow manager runs it: a form returned is put on the screen, a
\* created entry ends the flow, an exception leaves the screen as it is
StepInit(input, r) ==
    LET c == async_step_init(options_flow, input, r)
    IN  /\ options_flow' = c.self
        /\ opt_prev' = options_flow
        /\ opt_input' = input
        /\ opt_remote' = r
        /\ opt_result' = c.value
        /\ opt_raised' = c.raised
        /\ opt_steps' = opt_steps + 1
        /\ opt_state' = IF c.raised # "" THEN opt_state
                        ELSE IF c.value.type = "create_entry" THEN "done" ELSE "form"
        /\ opt_form' = IF c.raised = "" /\ c.value.type = "form"
                       THEN c.value.data_schema ELSE opt_form

\* the flow manager starts the flow: async_step_init(None)
StepInitShow ==
    /\ opt_state = "open"
    /\ opt_steps < MaxAttempts
    /\ \E r \in RemotesFor(options_flow.config_entry) : StepInit(None, r)

\* the user submits the form on the screen: async_step_init(user_input)
StepInitSubmit ==
    /\ opt_state = "form"
    /\ opt_steps < MaxAttempts
    /\ \E input \in OptionsInputs(opt_form), r \in RemotesFor(options_flow.config_entry) :
         StepInit(input, r)

vars == <<sensorVars, flowVars, optionsVars>>

Init == SensorInit /\ FlowInit /\ OptionsInit

Next ==
    \/ DataUpdated /\ UNCHANGED <<flowVars, optionsVars>>
    \/ AddedToHass /\ UNCHANGED <<flowVars, optionsVars>>

Spec == Init /\ [][Next]_vars

\* the config flow alone, beside one idle sensor
FlowSpecInit == Init /\ key = SYMBOL

FlowNext ==
    \/ StepUserInit /\ UNCHANGED <<sensorVars, optionsVars>>
    \/ StepUserSubmit /\ UNCHANGED <<sensorVars, optionsVars>>

FlowSpec == FlowSpecInit /\ [][FlowNext]_vars

\* the options flow alone
OptionsNext ==
    \/ GetOptionsFlow /\ UNCHANGED <<sensorVars, flowVars>>
    \/ StepInitShow /\ UNCHANGED <<sensorVars, flowVars>>
    \/ StepInitSubmit /\ UNCHANGED <<sensorVars, flowVars>>

OptionsSpec == FlowSpecInit /\ [][OptionsNext]_vars

\* ---------------------------------------------------------------- properties
\* the snapshot of the last data_updated call
D == Snapshot(data)

AfterCall == op = "data_updated"

\* the last call passed the freshness gate / was stopped by it
Fresh == AfterCall /\ prev._measured # Get(D, MEASURED)

Stale == AfterCall /\ prev._measured = Get(D, MEASURED)

\* the day a forecast sensor's key asks for: N of its suffix _Nd
DaySuffix(n) == <<"_", <<"1", "2", "3", "4", "5">>[n], "d">>

IsDayKey(k) == \E n \in 1..5 : EndsWith(k, DaySuffix(n))

RequestedDay(k) == CHOOSE n \in 1..5 : EndsWith(k, DaySuffix(n))

\* the snapshot's forecast list has / does not have the requested day
DayInRange(k, doc) ==
    /\ Get(doc, FORECAST).t = "list"
    /\ Len(Get(doc, FORECAST).v) >= RequestedDay(k)

DayOutOfRange(k, doc) ==
    /\ Get(doc, FORECAST).t = "list"
    /\ Len(Get(doc, FORECAST).v) < RequestedDay(k)

RequestedDayDoc(k, doc) == Get(doc, FORECAST).v[RequestedDay(k)].v

\* C1: a snapshot whose measured equals the sensor's last-measured makes
\* _load_data return false and leaves every field of the sensor (last-measured,
\* value, entity picture, extra attributes, timeframe) as it was.
C1_FreshnessGate ==
    Stale => /\ raised = ""
             /\ returned = FALSE
             /\ sensor = prev

\* a sensor that has loaded a snapshot is fed a stale one that, were it
\* loaded, would change the sensor
C1_Witness ==
    /\ Stale
    /\ prev._measured # None
    /\ \E o \in Dispatch(prev, D, key) : o.self # prev

\* C2: _load_data never raises, whatever part of the snapshot is absent.
C2_NeverThrows == AfterCall => raised = ""

\* C3: a forecast-day sensor fed a fresh snapshot whose forecast list is
\* shorter than the requested day logs a warning and returns false, and its
\* value and entity picture stay as they were.
C3_OutOfRangeDay ==
    (Fresh /\ IsDayKey(key) /\ DayOutOfRange(key, D)) =>
        /\ raised = ""
        /\ warned
        /\ returned = FALSE
        /\ sensor._attr_native_value = prev._attr_native_value
        /\ sensor._attr_entity_picture = prev._attr_entity_picture

\* a forecast-day sensor holding a value misses its day
C3_Witness ==
    /\ Fresh /\ IsDayKey(key) /\ DayOutOfRange(key, D)
    /\ prev._attr_native_value # None
    /\ warned

\* a sensor of the condition kind: symbol, condition, symbol_Nd, condition*_Nd
IsConditionKey(k) ==
    \/ k \in {SYMBOL, CONDITION}
    \/ IsDayKey(k) /\ (DropLast(k, 3) = SYMBOL \/ StartsWith(DropLast(k, 3), CONDITION))

\* the condition sub-document the sensor reads: the snapshot's, or the
\* requested day's
ConditionOf(k, doc) ==
    IF IsDayKey(k) THEN Get(RequestedDayDoc(k, doc), CONDITION) ELSE Get(doc, CONDITION)

\* the snapshot carries a non-empty condition sub-document for the sensor
HasCondition(k, doc) ==
    /\ IsDayKey(k) => DayInRange(k, doc)
    /\ Truthy(ConditionOf(k, doc))

Selected(k, doc) == _get_condition_state(ConditionOf(k, doc).v, k)

ImageOf(k, doc) == Get(ConditionOf(k, doc).v, IMAGE)

\* what a sensor of key k reads of the condition of each document: whether
\* there is a non-empty condition sub-document for it, and the selected value
\* and image (tabulated once; the measured field plays no part in it)
ConditionView ==
    [k \in SensorKeys |->
        [d \in 1..Len(Docs) |->
            IF IsConditionKey(k) /\ HasCondition(k, Docs[d])
            THEN [has |-> TRUE, sel |-> Selected(k, Docs[d]), img |-> ImageOf(k, Docs[d])]
            ELSE [has |-> FALSE, sel |-> None, img |-> None]]]

\* two successive snapshots with different measured and, in their non-empty
\* condition sub-documents, the same selected value and image
SameConditionAgain ==
    /\ AfterCall /\ AfterCall'
    /\ Get(D, MEASURED) # Get(D', MEASURED)
    /\ LET first == ConditionView[key][data.doc]
           second == ConditionView[key][data'.doc]
       IN  first.has /\ second.has /\ first.sel = second.sel /\ first.img = second.img

\* the second load records measured and returns false
SecondUnchanged ==
    /\ raised' = ""
    /\ returned' = FALSE
    /\ sensor'._measured = Get(D', MEASURED)

\* a condition sensor returns true only if the selected value or the image
\* differs from the stored ones, and then stores both
TrueOnlyIfDiffers ==
    (returned' /\ AfterCall' /\ raised' = "" /\ IsConditionKey(key)) =>
        LET new == ConditionView[key][data'.doc]
        IN  /\ new.has
            /\ new.sel # sensor._attr_native_value \/ new.img # sensor._attr_entity_picture
            /\ sensor'._attr_native_value = new.sel
            /\ sensor'._attr_entity_picture = new.img

\* C4 as stated: of two successive snapshots with different measured and the
\* same selected condition value and image, the second load records measured
\* but returns false; a load returns true, storing value and image, only if
\* one of them differs from the stored one.
C4_DualChangeDetection ==
    [][ (SameConditionAgain => SecondUnchanged) /\ TrueOnlyIfDiffers ]_vars

\* C4 amended: the same, provided the first of the two snapshots was itself
\* loaded, i.e. passed the freshness gate.
C4_DualChangeDetectionLoaded ==
    [][ ((SameConditionAgain /\ Fresh) => SecondUnchanged) /\ TrueOnlyIfDiffers ]_vars

\* a condition sensor that loaded a condition before passes the gate with the
\* stored value and image again: measured moves, nothing is reported
C4_Witness ==
    /\ Fresh /\ IsConditionKey(key) /\ HasCondition(key, D)
    /\ prev._measured # None
    /\ prev._attr_native_value = Selected(key, D)
    /\ prev._attr_entity_picture = ImageOf(key, D)
    /\ returned = FALSE
    /\ sensor._measured = Get(D, MEASURED)

Abs(x) == IF x < 0 THEN -x ELSE x

\* the sensor converts a wind speed: windspeed, windgust, or windspeed_Nd with
\* the day in the forecast
IsWindCase(k, doc) ==
    \/ k \in {WINDSPEED, WINDGUST}
    \/ IsDayKey(k) /\ DropLast(k, 3) = WINDSPEED /\ DayInRange(k, doc)

RawWind(k, doc) ==
    IF IsDayKey(k) THEN Get(RequestedDayDoc(k, doc), WINDSPEED) ELSE Get(doc, k)

\* stored (tenths) is the raw value times fnum/fden, to the nearest tenth
NearestTenth(stored, raw, fnum, fden) ==
    LET x == AsFraction(raw)
    IN  /\ stored.t = "float"
        /\ 2 * Abs(stored.v * x[2] * fden - 10 * x[1] * fnum) <= x[2] * fden

\* C5: a wind-speed sensor fed a fresh snapshot stores the raw m/s value times
\* 3.6 rounded to one decimal (10.0 gives 36.0, 0.0 gives 0.0), stores unset
\* when the raw value is absent, and _load_data returns true either way.
C5_WindSpeedConversion ==
    (Fresh /\ IsWindCase(key, D)) =>
        /\ raised = ""
        /\ returned
        /\ IF RawWind(key, D) = None
           THEN sensor._attr_native_value = None
           ELSE /\ NearestTenth(sensor._attr_native_value, RawWind(key, D), 36, 10)
                /\ RawWind(key, D) = PyFloat(100) => sensor._attr_native_value = PyFloat(360)
                /\ RawWind(key, D) = PyFloat(0) => sensor._attr_native_value = PyFloat(0)

\* a forecast wind speed of 1.3 m/s stored as 4.7 km/h
C5_Witness ==
    /\ Fresh /\ IsWindCase(key, D) /\ IsDayKey(key)
    /\ RawWind(key, D) = PyFloat(13)
    /\ sensor._attr_native_value = PyFloat(47)

\* C6: the visibility sensor fed a fresh snapshot stores the raw metres
\* divided by 1000 rounded to one decimal (15000 gives 15.0), stores unset when
\* the raw value is absent, and _load_data returns true either way.
C6_VisibilityConversion ==
    (Fresh /\ key = VISIBILITY) =>
        /\ raised = ""
        /\ returned
        /\ IF Get(D, VISIBILITY) = None
           THEN sensor._attr_native_value = None
           ELSE /\ NearestTenth(sensor._attr_native_value, Get(D, VISIBILITY), 1, 1000)
                /\ Get(D, VISIBILITY) = PyInt(15000) =>
                       sensor._attr_native_value = PyFloat(150)

\* 15000 m stored as 15.0 km
C6_Witness ==
    /\ Fresh /\ key = VISIBILITY
    /\ Get(D, VISIBILITY) = PyInt(15000)
    /\ sensor._attr_native_value = PyFloat(150)

\* the snapshot lacks the field the sensor reads: the condition sub-document
\* of a condition sensor, the field of the requested (present) day, the field
\* of the present precipitation forecast, or the top-level field
FieldMissing(k, doc) ==
    IF IsDayKey(k)
    THEN /\ DayInRange(k, doc)
         /\ (IF IsConditionKey(k) THEN CONDITION ELSE DropLast(k, 3))
                \notin DOMAIN RequestedDayDoc(k, doc)
    ELSE IF IsConditionKey(k) THEN CONDITION \notin DOMAIN doc
    ELSE IF StartsWith(k, PRECIPITATION_FORECAST)
    THEN /\ Get(doc, PRECIPITATION_FORECAST).t = "dict"
         /\ DropFirst(k, Len(PRECIPITATION_FORECAST) + 1)
                \notin DOMAIN Get(doc, PRECIPITATION_FORECAST).v
    ELSE k \notin DOMAIN doc

\* C7: a fresh snapshot that lacks the field the sensor reads leaves the
\* sensor's value unset, not at its prior value.
C7_MissingFieldUnset ==
    (Fresh /\ FieldMissing(key, D)) => sensor._attr_native_value = None

\* C8: a call that passes the freshness gate records the snapshot's measured
\* whatever the branch does (changed, unchanged condition, forecast miss), and
\* the same snapshot fed again straight after returns false and changes nothing.
C8_MeasuredAdvanced ==
    [][ /\ (Fresh' => sensor'._measured = Get(D', MEASURED))
        /\ (AfterCall /\ AfterCall' /\ D' = D) =>
               (returned' = FALSE /\ raised' = "" /\ sensor' = sensor) ]_vars

\* a forecast miss that advanced last-measured
C8_Witness ==
    /\ Fresh /\ warned /\ returned = FALSE
    /\ sensor._measured = Get(D, MEASURED)
    /\ sensor._measured # prev._measured

\* C9: data_updated writes the state to hass exactly when _load_data returned
\* true and the entity is attached to hass; a stale snapshot never causes a
\* write; _load_data itself writes nothing.
C9_StatePushGating ==
    AfterCall =>
        /\ writes \in {0, 1}
        /\ (writes = 1) <=> (raised = "" /\ returned /\ hass)
        /\ Stale => writes = 0
        /\ \A o \in _load_data(prev, D, key) : o.writes = 0

\* an attached sensor wrote its state
C9_Witness == AfterCall /\ hass /\ returned /\ writes = 1

\* C10: async_step_user without input shows the user form without errors and
\* creates no entry; with input it creates the entry (data the input, options
\* the recommended ones) exactly when the remote call raised nothing, and
\* otherwise shows the user form again with the one error base: invalid_auth
\* for an authentication error, unknown for any other; it never raises.
C10_UserStep ==
    flow # "new" =>
        /\ step_raised = ""
        /\ IF user_input.t = "None"
           THEN /\ result.type = "form" /\ result.step_id = "user"
                /\ result.errors.t = "None"
                /\ entry.t = "None"
           ELSE IF remote = ""
           THEN /\ result.type = "create_entry"
                /\ result.data = user_input
                /\ result.options = RECOMMENDED_OPTIONS
                /\ entry = Dict(("data" :> user_input) @@ ("options" :> RECOMMENDED_OPTIONS))
           ELSE /\ result.type = "form" /\ result.step_id = "user"
                /\ result.errors =
                       Dict("base" :> Text(IF remote = "AuthenticationError"
                                           THEN "invalid_auth" ELSE "unknown"))
                /\ entry.t = "None"

\* a submission refused for its API key shows the form with invalid_auth
C10_Witness ==
    /\ flow = "form"
    /\ user_input.t = "dict"
    /\ remote = "AuthenticationError"
    /\ result.errors = Dict("base" :> Text("invalid_auth"))

\* the field of the condition sub-document named by the sub-key of a forecast
\* condition sensor: symbol the exact-dutch text, condition the condition
\* text, conditioncode the code, conditiondetailed the detailed text,
\* conditionexact the exact text
SubKeyField(k) ==
    LET base == DropLast(k, 3)
    IN  IF base = SYMBOL THEN EXACTNL
        ELSE IF base = CONDITION THEN CONDITION
        ELSE IF base = Str_conditioncode THEN CONDCODE
        ELSE IF base = Str_conditiondetailed THEN DETAILED
        ELSE EXACT

\* C11: a forecast-day symbol/condition sensor that stores a value of the
\* day's condition sub-document stores the field its sub-key names.
C11_SubKeySelection ==
    (AfterCall /\ raised = "" /\ returned /\ IsDayKey(key) /\ IsConditionKey(key)) =>
        sensor._attr_native_value = Get(ConditionOf(key, D).v, SubKeyField(key))

\* a sensor that is not of the symbol/condition kind, fed a snapshot that has
\* its forecast day if it is a forecast-day sensor
IsPlainCase(k, doc) ==
    /\ ~IsConditionKey(k)
    /\ IsDayKey(k) => DayInRange(k, doc)

\* C12: a sensor that is not a symbol/condition sensor returns true from
\* every load that passes the freshness gate, also when the value read is the
\* one already stored.
C12_FreshnessOnlyReporting ==
    (Fresh /\ IsPlainCase(key, D)) => (raised = "" /\ returned)

\* the same for the snapshots that carry the precipitation_forecast
\* sub-document when the sensor reads it
C12_ReportingWhenPresent ==
    (/\ Fresh /\ IsPlainCase(key, D)
     /\ StartsWith(key, PRECIPITATION_FORECAST) =>
            Get(D, PRECIPITATION_FORECAST).t = "dict")
        => (raised = "" /\ returned)

\* a generic forecast sensor (base_Nd, base neither symbol, condition* nor
\* windspeed) fed a snapshot that has its day
IsGenericDayCase(k, doc) ==
    /\ IsDayKey(k) /\ ~IsConditionKey(k)
    /\ ~StartsWith(k, WINDSPEED)
    /\ DayInRange(k, doc)

\* C13: a generic forecast sensor base_Nd fed a fresh snapshot with at least N
\* forecast days stores forecast[N-1][base] as it is (unset if the day lacks
\* the field), whatever the top-level field of that name and the other days
\* hold.
C13_ForecastDayIndexing ==
    (Fresh /\ IsGenericDayCase(key, D)) =>
        /\ raised = ""
        /\ sensor._attr_native_value = Get(RequestedDayDoc(key, D), DropLast(key, 3))

\* temperature_2d stores the second day's 5.5 while the first day has no
\* temperature and the top-level temperature is 21.5
C13_Witness ==
    /\ Fresh /\ IsGenericDayCase(key, D)
    /\ RequestedDay(key) = 2
    /\ sensor._attr_native_value = PyFloat(55)
    /\ Get(D, Str_temperature) = PyFloat(215)
    /\ Get(Get(D, FORECAST).v[1].v, Str_temperature) = None

\* the sensor holds the value of its day of the document: the selected
\* condition value and image of a symbol/condition sensor whose day has a
\* non-empty condition, the converted wind speed, the day's field as it is
HoldsDayValue(self, k, d) ==
    IF IsConditionKey(k)
    THEN ConditionView[k][d].has =>
             /\ self._attr_native_value = ConditionView[k][d].sel
             /\ self._attr_entity_picture = ConditionView[k][d].img
    ELSE IF StartsWith(k, WINDSPEED)
    THEN IF RawWind(k, Docs[d]) = None
         THEN self._attr_native_value = None
         ELSE NearestTenth(self._attr_native_value, RawWind(k, Docs[d]), 36, 10)
    ELSE self._attr_native_value = Get(RequestedDayDoc(k, Docs[d]), DropLast(k, 3))

\* a forecast-day sensor whose last snapshot lacked its day is handed one that
\* has it
ValidAfterMiss ==
    /\ AfterCall /\ AfterCall'
    /\ IsDayKey(key)
    /\ DayOutOfRange(key, Docs[data.doc])
    /\ DayInRange(key, Docs[data'.doc])

IsFallThrough(k) ==
    /\ ~IsDayKey(k)
    /\ k \notin {SYMBOL, CONDITION, WINDSPEED, WINDGUST, VISIBILITY}
    /\ ~StartsWith(k, PRECIPITATION_FORECAST)

Attributes(self) == self._attr_extra_state_attributes

\* C15: a sensor of the fall-through branch stores on every fresh load the
\* top-level field as it is and a new attributes map with the attribution and
\* the station name, and a Measured entry exactly when the measured just
\* recorded is set; a sensor of any other branch never has an attributes map.
C15_ScalarAttributes ==
    /\ (Fresh /\ IsFallThrough(key)) =>
           /\ raised = "" /\ returned
           /\ sensor._attr_native_value = Get(D, key)
           /\ Attributes(sensor).t = "dict"
           /\ DOMAIN Attributes(sensor).v =
                  {ATTR_ATTRIBUTION, STATIONNAME_LABEL}
                  \cup (IF Get(D, MEASURED) # None THEN {MEASURED_LABEL} ELSE {})
           /\ Attributes(sensor).v[ATTR_ATTRIBUTION] = Get(D, ATTRIBUTION)
           /\ Attributes(sensor).v[STATIONNAME_LABEL] = Get(D, STATIONNAME)
           /\ Get(D, MEASURED) # None =>
                  Attributes(sensor).v[MEASURED_LABEL] = Strftime(Get(D, MEASURED))
    /\ ~IsFallThrough(key) => Attributes(sensor) = None

\* a scalar sensor whose map had a Measured entry gets a map without one from
\* a snapshot that has no measured
C15_Witness ==
    /\ Fresh /\ IsFallThrough(key)
    /\ Attributes(prev).t = "dict"
    /\ MEASURED_LABEL \in DOMAIN Attributes(prev).v
    /\ MEASURED_LABEL \notin DOMAIN Attributes(sensor).v
    /\ sensor._attr_native_value = PyFloat(215)

\* C19: the value and the entity picture of a symbol/condition sensor are
\* unset at first; a load that passes the freshness gate with a non-empty
\* condition sub-document (of a day in range) leaves them equal to the selected
\* field and the image of that snapshot, and any other call leaves both as they
\* were, so they are only ever written together.
C19_ValueAndPictureTogether ==
    [][ IsConditionKey(key) =>
          /\ op = "init" =>
                 /\ sensor._attr_native_value = None
                 /\ sensor._attr_entity_picture = None
          /\ AfterCall' =>
                 LET new == ConditionView[key][data'.doc]
                 IN  IF new.has /\ Fresh'
                     THEN /\ raised' = ""
                          /\ sensor'._attr_native_value = new.sel
                          /\ sensor'._attr_entity_picture = new.img
                     ELSE /\ sensor'._attr_native_value = sensor._attr_native_value
                          /\ sensor'._attr_entity_picture = sensor._attr_entity_picture
      ]_vars

\* a condition sensor holding a value and an image takes the same value with
\* another image from a fresh snapshot
C19_Witness ==
    /\ Fresh /\ IsConditionKey(key) /\ HasCondition(key, D)
    /\ prev._attr_native_value # None
    /\ sensor._attr_native_value = prev._attr_native_value
    /\ prev._attr_entity_picture # None
    /\ sensor._attr_entity_picture # prev._attr_entity_picture
    /\ sensor._attr_entity_picture = ImageOf(key, D)

\* the sensor as constructed: nothing measured, no value, picture or attributes
IsUnloaded(self) ==
    /\ self._measured = None
    /\ self._attr_native_value = None
    /\ self._attr_entity_picture = None
    /\ self._attr_extra_state_attributes = None

\* C20: a sensor that has loaded nothing, fed a snapshot without a measured
\* field, returns false and stays as constructed; so a sequence of such
\* snapshots only never loads a new sensor.
C20_UnmeasuredNeverLoaded ==
    /\ op = "init" => IsUnloaded(sensor)
    /\ (AfterCall /\ IsUnloaded(prev) /\ Get(D, MEASURED) = None) =>
           /\ raised = "" /\ returned = FALSE /\ writes = 0
           /\ sensor = prev

\* a new sensor attached to hass is fed the full snapshot without measured
C20_Witness ==
    /\ AfterCall /\ hass
    /\ IsUnloaded(prev) /\ data = [doc |-> 2, m |-> 0]
    /\ IsUnloaded(sensor)

\* the last step of the options flow was a submission / created the entry /
\* showed a form
Submitted == opt_steps > 0 /\ opt_input # None

Created == opt_steps > 0 /\ opt_raised = "" /\ opt_result.type = "create_entry"

ShownInit ==
    /\ opt_steps > 0 /\ opt_raised = ""
    /\ opt_result.type = "form" /\ opt_result.step_id = "init"

\* the flag the last rendering went by is, before any submission, the entry's
\* recommended option, False if it has none
StartsFromEntry ==
    (opt_state # "none" /\ opt_input = None) =>
        options_flow.last_rendered_recommended =
            GetOr(options_flow.config_entry.options, CONF_RECOMMENDED, PyBool(FALSE))

\* a submission creates the entry exactly when its flag is the rendered one,
\* and otherwise makes its flag the rendered one
TwoStepToggle ==
    Submitted =>
        LET flag == opt_input.v[CONF_RECOMMENDED]
        IN  /\ Created <=> (flag = opt_prev.last_rendered_recommended)
            /\ options_flow.last_rendered_recommended = flag

\* the form shown carries over the recommended flag, the prompt and the LLM API
\* of the submission, and nothing else of it
CarriedOver ==
    /\ ShownInit
    /\ opt_result.data_schema =
           [ openai_config_option_schema(
                 [k \in {CONF_RECOMMENDED, CONF_PROMPT, CONF_LLM_HASS_API} |-> opt_input.v[k]],
                 None, FALSE)
             EXCEPT !.fields = opt_result.data_schema.fields,
                    !.choices = opt_result.data_schema.choices ]

\* C16 as stated: a submission to the options step creates the entry if and
\* only if its recommended flag is last_rendered_recommended (at first the
\* entry's recommended option, False by default); otherwise
\* last_rendered_recommended becomes the flag and the form is shown again with
\* only recommended, prompt and LLM API carried over.
C16_TwoStepToggle ==
    /\ StartsFromEntry
    /\ TwoStepToggle
    /\ (Submitted /\ ~Created) => CarriedOver

\* the same, the form being shown again unless the step raises: this much of
\* C16 holds
C16_TwoStepToggleUnlessRaised ==
    /\ StartsFromEntry
    /\ TwoStepToggle
    /\ (Submitted /\ ~Created /\ opt_raised = "") => CarriedOver

\* the outcomes of the remote lookup that C17 lists: a list of models, empty
\* or not, an agents response of status 200 or another, an API connection
\* error, an HTTP error
ListedOutcomes ==
    ModelAnswers
    \cup {Answer("status_200", <<"agent-1", "">>), Answer("status_200", <<>>),
          Answer("status_404", <<>>)}
    \cup {Raises("APIConnectionError"), Raises("HTTPError")}

\* the last step went on to the remote lookup
LookedUp ==
    /\ opt_steps > 0 /\ ~Created
    /\ opt_input # None => CONF_PROMPT \in DOMAIN opt_input.v

\* C17: whatever the remote lookup gives (models or none, an agents response
\* of any status, an API connection error, an HTTP error), async_step_init
\* shows the init form and does not raise; after an API connection error the
\* model list is exactly [gpt-4o-mini].
C17_InitAlwaysShowsForm ==
    (LookedUp /\ opt_remote \in ListedOutcomes) =>
        /\ opt_raised = ""
        /\ ShownInit
        /\ (opt_remote = Raises("APIConnectionError")
            /\ CONF_CHAT_MODEL \in opt_result.data_schema.fields) =>
               opt_result.data_schema.choices = List(<<"gpt-4o-mini">>)

\* what of C17 holds: the step shows the form when the lookup gives a
\* non-empty list of models, an agents response of status 200 or an API
\* connection error, the latter with the model list [gpt-4o-mini]
C17_ShowsFormWhenListDefined ==
    (/\ LookedUp
     /\ opt_remote \in {Answer("models", <<"gpt-4o", "gpt-4o-mini">>),
                        Answer("status_200", <<"agent-1", "">>), Answer("status_200", <<>>),
                        Raises("APIConnectionError")}) =>
        /\ opt_raised = ""
        /\ ShownInit
        /\ (opt_remote = Raises("APIConnectionError")
            /\ CONF_CHAT_MODEL \in opt_result.data_schema.fields) =>
               opt_result.data_schema.choices = List(<<"gpt-4o-mini">>)

\* C18: the data of the entry the options step creates is the submitted input
\* without its LLM API key when that was "none", and with every other key and
\* value as submitted.
C18_SavedOptions ==
    (Submitted /\ Created) =>
        LET dropped == IF opt_input.v[CONF_LLM_HASS_API] = Text("none")
                       THEN {CONF_LLM_HASS_API} ELSE {}
        IN  /\ opt_result.data.t = "dict"
            /\ DOMAIN opt_result.data.v = DOMAIN opt_input.v \ dropped
            /\ \A k \in DOMAIN opt_result.data.v : opt_result.data.v[k] = opt_input.v[k]

\* options with a model chosen and no LLM API are saved
C18_Witness ==
    /\ Submitted /\ Created
    /\ opt_input.v[CONF_LLM_HASS_API] = Text("none")
    /\ CONF_CHAT_MODEL \in DOMAIN opt_input.v
    /\ CONF_LLM_HASS_API \notin DOMAIN opt_result.data.v
    /\ CONF_CHAT_MODEL \in DOMAIN opt_result.data.v

\* the current-day sensors conditioncode, conditiondetailed and conditionexact
IsCurrentConditionDetail(k) ==
    k \in {Str_conditioncode, Str_conditiondetailed, Str_conditionexact}

\* C21: the current-day conditioncode, conditiondetailed and conditionexact
\* sensors take the fall-through branch: every fresh load returns true and
\* stores the top-level field of their own key as it is (unset if absent),
\* whatever the condition sub-document holds, and they never have an entity
\* picture.
C21_CurrentDetailsArePlainScalars ==
    IsCurrentConditionDetail(key) =>
        /\ sensor._attr_entity_picture = None
        /\ Fresh =>
               /\ raised = "" /\ returned
               /\ sensor._attr_native_value = Get(D, key)
               /\ Attributes(sensor).t = "dict"

\* the conditioncode sensor stores the top-level code of a snapshot whose
\* condition sub-document has another code and an image
C21_Witness ==
    /\ Fresh /\ key = Str_conditioncode
    /\ Truthy(Get(D, CONDITION))
    /\ Get(Get(D, CONDITION).v, CONDCODE) = Text("c")
    /\ Get(Get(D, CONDITION).v, IMAGE) # None
    /\ sensor._attr_native_value = Text("top")
    /\ sensor._attr_entity_picture = None

====
